---------------------------- MODULE Spec2Model ----------------------------
(***************************************************************************)
(* Model of the transcript analyzer of VoiceAI                              *)
(* (src/transcription_service.py, class TranscriptionService):              *)
(* create_simple_summary, extract_action_items, extract_key_points and the  *)
(* summary fallback of transcribe_audio; and of the processing of one       *)
(* recording by src/main.py: upload, POST /process with its background      *)
(* task, POST /process-now and delete.                                      *)
(*                                                                         *)
(* A Python str is modelled as a sequence of one-character strings, a       *)
(* Python list of str as a sequence of such sequences.  str.lower,          *)
(* str.capitalize, str.strip, str.endswith, the `in` substring test,        *)
(* slicing and re.split are modelled character by character.                *)
(***************************************************************************)
EXTENDS Naturals, Sequences, FiniteSets

VARIABLES
    transcript_text,  \* the transcript handed to the analyzer (provider's transcript.text)
    summary,          \* the summary handed to extract_key_points (provider's transcript.summary; empty = absent)
    pc,               \* which call has returned last
    simple_summary,   \* return value of create_simple_summary(transcript_text)
    action_items,     \* return value of extract_action_items(transcript_text)
    key_points,       \* return value of extract_key_points(summary, transcript_text)
    result,           \* return value of transcribe_audio (its "transcript" and "summary" entries)
    rec_state,        \* the recording's row: "absent" (not uploaded yet), "present", "deleted"
    rec_status,       \* Recording.status as committed
    rec_transcript,   \* Recording.transcript as committed (empty = NULL)
    summary_row,      \* the Summary row of the recording as committed
    runs              \* the processing runs: 0 is the process-now request, 1.. the background tasks

analyzerVars == <<transcript_text, summary, pc, simple_summary, action_items, key_points, result>>
pipelineVars == <<rec_state, rec_status, rec_transcript, summary_row, runs>>
vars == <<analyzerVars, pipelineVars>>

----------------------------------------------------------------------------
(* Characters and the str methods the analyzer uses.                       *)

LowerChars == <<"a","b","c","d","e","f","g","h","i","j","k","l","m","n","o","p","q","r","s","t","u","v","w","x","y","z">>
UpperChars == <<"A","B","C","D","E","F","G","H","I","J","K","L","M","N","O","P","Q","R","S","T","U","V","W","X","Y","Z">>
LowerSet == {LowerChars[i] : i \in 1..Len(LowerChars)}
UpperSet == {UpperChars[i] : i \in 1..Len(UpperChars)}
Whitespace == {" ", "\t", "\n"}

LowerOf == [c \in UpperSet |-> LowerChars[CHOOSE i \in 1..Len(UpperChars) : UpperChars[i] = c]]
UpperOf == [c \in LowerSet |-> UpperChars[CHOOSE i \in 1..Len(LowerChars) : LowerChars[i] = c]]

\* one character of str.lower() / str.upper(): only cased letters change
ToLower(c) == IF c \in UpperSet THEN LowerOf[c] ELSE c
ToUpper(c) == IF c \in LowerSet THEN UpperOf[c] ELSE c

\* s.lower()
Lower(s) == [i \in 1..Len(s) |-> ToLower(s[i])]

\* a capitalize that lower-cases everything (s.lower() in its place)
CapitalizeLowerOnly(s) == [i \in 1..Len(s) |-> ToLower(s[i])]
\* a capitalize that upper-cases the first character and leaves the others alone
CapitalizeFirstOnly(s) == [i \in 1..Len(s) |-> IF i = 1 THEN ToUpper(s[i]) ELSE s[i]]

\* s.capitalize(): first character upper-cased, all the others lower-cased
Capitalize(s) == [i \in 1..Len(s) |-> IF i = 1 THEN ToUpper(s[i]) ELSE ToLower(s[i])]

\* s[:n]
Take(s, n) == SubSeq(s, 1, IF Len(s) < n THEN Len(s) ELSE n)

\* s.strip(): leading and trailing whitespace removed
RECURSIVE LStripIdx(_, _)
LStripIdx(s, i) ==
    IF i > Len(s) THEN i
    ELSE IF s[i] \in Whitespace THEN LStripIdx(s, i + 1) ELSE i
RECURSIVE RStripIdx(_, _)
RStripIdx(s, i) ==
    IF i < 1 THEN i
    ELSE IF s[i] \in Whitespace THEN RStripIdx(s, i - 1) ELSE i
Strip(s) == SubSeq(s, LStripIdx(s, 1), RStripIdx(s, Len(s)))

\* s.endswith(suffix)
EndsWith(s, suffix) ==
    /\ Len(suffix) <= Len(s)
    /\ SubSeq(s, Len(s) - Len(suffix) + 1, Len(s)) = suffix

\* sub in s
Contains(s, sub) ==
    \E i \in 1..(Len(s) + 1) :
        /\ i + Len(sub) - 1 <= Len(s)
        /\ SubSeq(s, i, i + Len(sub) - 1) = sub

\* re.split(r'[<delims>]+', s): the pieces between maximal runs of delimiter
\* characters, the empty pieces at both ends and of the empty string included
\* the first position at or after i that holds no delimiter
RECURSIVE SkipDelims(_, _, _)
SkipDelims(s, delims, i) ==
    IF i > Len(s) THEN i
    ELSE IF s[i] \in delims THEN SkipDelims(s, delims, i + 1) ELSE i
\* the first delimiter at or after position i, Len(s) + 1 when there is none
NextDelim(s, delims, i) ==
    LET hits == {j \in i..Len(s) : s[j] \in delims}
    IN  IF hits = {} THEN Len(s) + 1
        ELSE CHOOSE j \in hits : \A k \in hits : j <= k
RECURSIVE SplitFrom(_, _, _)
SplitFrom(s, delims, start) ==
    LET i == NextDelim(s, delims, start)
    IN  IF i > Len(s) THEN <<SubSeq(s, start, Len(s))>>
        ELSE <<SubSeq(s, start, i - 1)>> \o SplitFrom(s, delims, SkipDelims(s, delims, i))
Split(s, delims) == SplitFrom(s, delims, 1)

\* a sentence class that misses the exclamation mark
SentenceDelimsNoBang == {".", "?"}
\* the character class of re.split(r'[.!?]+', ...)
SentenceDelims == {".", "!", "?"}
\* the character class of re.split(r'[.!?;]+', summary)
SummaryDelims == {".", "!", "?", ";"}

----------------------------------------------------------------------------
(* create_simple_summary                                                   *)

MinSummaryLen == 10
MaxBriefSentences == 2
BriefPrefixLen == 100

ShortClipSummary == <<"S","h","o","r","t"," ","a","u","d","i","o"," ","c","l","i","p"," ","w","i","t","h"," ","m","i","n","i","m","a","l"," ","c","o","n","t","e","n","t",".">>
BriefPrefix == <<"B","r","i","e","f"," ","a","u","d","i","o"," ","c","o","n","t","a","i","n","i","n","g",":"," ">>
Ellipsis == <<".",".",".">>
DiscussesPrefix == <<"T","h","e"," ","a","u","d","i","o"," ","d","i","s","c","u","s","s","e","s"," ">>
ConcludesInfix == <<" ","a","n","d"," ","c","o","n","c","l","u","d","e","s"," ","w","i","t","h"," ">>
Period == <<".">>

\* sentences = [s.strip() for s in re.split(r'[.!?]+', transcript_text) if s.strip()]
StrippedNonEmpty(fragments) ==
    LET stripped == [i \in 1..Len(fragments) |-> Strip(fragments[i])]
        NonEmpty(f) == f # << >>
    IN  SelectSeq(stripped, NonEmpty)
Sentences(text) == StrippedNonEmpty(Split(text, SentenceDelims))

\* the length test taken on the untrimmed text
IsMinimalUntrimmed(text) == text = << >> \/ Len(text) < MinSummaryLen
\* not transcript_text or len(transcript_text.strip()) < 10
IsMinimal(text) == text = << >> \/ Len(Strip(text)) < MinSummaryLen

\* the sentence-count test off by one
IsBriefOffByOne(sentences) == Len(sentences) <= MaxBriefSentences + 1
\* len(sentences) <= 2
IsBrief(sentences) == Len(sentences) <= MaxBriefSentences

\* a last part that is left out when its text is that of the first sentence
LastPartIfDistinct(sentences) ==
    IF Len(sentences) > 1 /\ sentences[Len(sentences)] # sentences[1]
    THEN sentences[Len(sentences)] ELSE << >>
\* sentences[-1] if len(sentences) > 1 else ""
LastPart(sentences) ==
    IF Len(sentences) > 1 THEN sentences[Len(sentences)] ELSE << >>

create_simple_summary(text) ==
    IF IsMinimal(text)
    THEN ShortClipSummary
    ELSE LET sentences == Sentences(text)
         IN  IF IsBrief(sentences)
             THEN BriefPrefix \o Take(text, BriefPrefixLen) \o Ellipsis
             ELSE LET first_part == sentences[1]
                      last_part == LastPart(sentences)
                      head == DiscussesPrefix \o Lower(first_part)
                      body == IF last_part # << >>
                              THEN head \o ConcludesInfix \o Lower(last_part)
                              ELSE head
                  IN  body \o Period

----------------------------------------------------------------------------
(* extract_action_items                                                    *)

MinActionSentenceLen == 5
MaxActionItems == 5

\* the keywords without "meeting"
action_keywords_no_meeting == <<
    <<"n","e","e","d"," ","t","o">>, <<"s","h","o","u","l","d">>, <<"m","u","s","t">>, <<"h","a","v","e"," ","t","o">>, <<"w","i","l","l">>,
    <<"a","c","t","i","o","n">>, <<"t","o","d","o">>, <<"t","o"," ","d","o">>, <<"f","o","l","l","o","w"," ","u","p">>, <<"n","e","x","t"," ","s","t","e","p">>,
    <<"a","s","s","i","g","n">>, <<"r","e","s","p","o","n","s","i","b","l","e">>, <<"d","e","a","d","l","i","n","e">>, <<"s","c","h","e","d","u","l","e">>,
    <<"c","o","n","t","a","c","t">>, <<"e","m","a","i","l">>, <<"c","a","l","l">>, <<"s","e","n","d">>,
    <<"r","e","m","e","m","b","e","r">>, <<"d","o","n","'","t"," ","f","o","r","g","e","t">>, <<"m","a","k","e"," ","s","u","r","e">> >>
action_keywords == <<
    <<"n","e","e","d"," ","t","o">>, <<"s","h","o","u","l","d">>, <<"m","u","s","t">>, <<"h","a","v","e"," ","t","o">>, <<"w","i","l","l">>,
    <<"a","c","t","i","o","n">>, <<"t","o","d","o">>, <<"t","o"," ","d","o">>, <<"f","o","l","l","o","w"," ","u","p">>, <<"n","e","x","t"," ","s","t","e","p">>,
    <<"a","s","s","i","g","n">>, <<"r","e","s","p","o","n","s","i","b","l","e">>, <<"d","e","a","d","l","i","n","e">>, <<"s","c","h","e","d","u","l","e">>,
    <<"c","o","n","t","a","c","t">>, <<"e","m","a","i","l">>, <<"c","a","l","l">>, <<"m","e","e","t","i","n","g">>, <<"s","e","n","d">>,
    <<"r","e","m","e","m","b","e","r">>, <<"d","o","n","'","t"," ","f","o","r","g","e","t">>, <<"m","a","k","e"," ","s","u","r","e">> >>

MeetingWord == <<"m","e","e","t","i","n","g">>
CallWord == <<"c","a","l","l">>
MeetingItem == <<"F","o","l","l","o","w"," ","u","p"," ","o","n"," ","m","e","e","t","i","n","g"," ","d","i","s","c","u","s","s","i","o","n",".">>
CallItem == <<"R","e","v","i","e","w"," ","c","a","l","l"," ","n","o","t","e","s"," ","a","n","d"," ","n","e","x","t"," ","s","t","e","p","s",".">>
GenericItem == <<"R","e","v","i","e","w"," ","r","e","c","o","r","d","i","n","g"," ","c","o","n","t","e","n","t"," ","f","o","r"," ","f","u","r","t","h","e","r"," ","a","c","t","i","o","n",".">>

\* any(keyword in sentence_lower for keyword in action_keywords)
HasActionKeyword(sentence_lower) ==
    \E k \in 1..Len(action_keywords) : Contains(sentence_lower, action_keywords[k])

\* clean = s.capitalize(); if not clean.endswith('.'): clean += '.'
CleanSentence(sentence) ==
    LET clean_sentence == Capitalize(sentence)
    IN  IF EndsWith(clean_sentence, Period) THEN clean_sentence
        ELSE clean_sentence \o Period

\* a loop that skips a sentence equal, ignoring case, to one already kept
RECURSIVE ActionLoopSeen(_, _, _)
ActionLoopSeen(sentences, i, seen) ==
    IF i > Len(sentences) THEN << >>
    ELSE LET sentence == Strip(sentences[i])
         IN  IF /\ Len(sentence) >= MinActionSentenceLen
                /\ HasActionKeyword(Lower(sentence))
                /\ Lower(sentence) \notin seen
             THEN <<CleanSentence(sentence)>>
                  \o ActionLoopSeen(sentences, i + 1, seen \cup {Lower(sentence)})
             ELSE ActionLoopSeen(sentences, i + 1, seen)
ActionLoopSkippingRepeats(sentences, i) == ActionLoopSeen(sentences, i, {})

\* the for loop over the raw split pieces, from piece i on
RECURSIVE ActionLoop(_, _)
ActionLoop(sentences, i) ==
    IF i > Len(sentences) THEN << >>
    ELSE LET sentence == Strip(sentences[i])
         IN  IF Len(sentence) < MinActionSentenceLen
             THEN ActionLoop(sentences, i + 1)
             ELSE IF HasActionKeyword(Lower(sentence))
                  THEN <<CleanSentence(sentence)>> \o ActionLoop(sentences, i + 1)
                  ELSE ActionLoop(sentences, i + 1)

\* if not action_items and transcript_text: ... the synthesized item
\* a fallback that knows the generic item only
FallbackItemGenericOnly(text) == GenericItem
FallbackItem(text) ==
    IF Contains(Lower(text), MeetingWord) THEN MeetingItem
    ELSE IF Contains(Lower(text), CallWord) THEN CallItem
    ELSE GenericItem

\* a return that forgets the slice
FirstActionItemsUncut(items) == items
\* action_items[:5]
FirstActionItems(items) == Take(items, MaxActionItems)

extract_action_items(text) ==
    IF text = << >> THEN << >>
    ELSE LET found == ActionLoop(Split(text, SentenceDelims), 1)
             items == IF found = << >> /\ text # << >>
                      THEN <<FallbackItem(text)>> ELSE found
         IN  FirstActionItems(items)

----------------------------------------------------------------------------
(* extract_key_points                                                      *)

MinSummaryPointLen == 15
MinTranscriptPointLen == 20
MinSummaryPoints == 3
MaxTranscriptSentences == 3
MaxKeyPoints == 5

\* a for loop that strips each piece, keeps those longer than minlen and cleans them
RECURSIVE PointLoop(_, _, _)
PointLoop(pieces, minlen, i) ==
    IF i > Len(pieces) THEN << >>
    ELSE LET point == Strip(pieces[i])
         IN  IF Len(point) > minlen
             THEN <<CleanSentence(point)>> \o PointLoop(pieces, minlen, i + 1)
             ELSE PointLoop(pieces, minlen, i + 1)

\* points gathered from the summary
SummaryPoints(summ) ==
    IF summ = << >> THEN << >>
    ELSE PointLoop(Split(summ, SummaryDelims), MinSummaryPointLen, 1)

\* points gathered from transcript_sentences[:3]
TranscriptPoints(transcript) ==
    PointLoop(Take(Split(transcript, SentenceDelims), MaxTranscriptSentences),
              MinTranscriptPointLen, 1)

\* the list `points` before duplicates are removed
GatherPoints(summ, transcript) ==
    LET points == SummaryPoints(summ)
    IN  IF Len(points) < MinSummaryPoints /\ transcript # << >>
        THEN points \o TranscriptPoints(transcript)
        ELSE points

\* seen = set(); keep a point when point.lower() is not in seen
RECURSIVE UniqueLoop(_, _, _)
UniqueLoop(points, i, seen) ==
    IF i > Len(points) THEN << >>
    ELSE IF Lower(points[i]) \notin seen
         THEN <<points[i]>> \o UniqueLoop(points, i + 1, seen \cup {Lower(points[i])})
         ELSE UniqueLoop(points, i + 1, seen)

\* a duplicate removal that removes nothing
UniquePointsKeepAll(points) == points
UniquePoints(points) == UniqueLoop(points, 1, {})

extract_key_points(summ, transcript) ==
    Take(UniquePoints(GatherPoints(summ, transcript)), MaxKeyPoints)

----------------------------------------------------------------------------
(* transcribe_audio: what it makes of the provider's answer                *)

NoTranscript == <<"N","o"," ","t","r","a","n","s","c","r","i","p","t"," ","a","v","a","i","l","a","b","l","e">>

\* transcript_text = transcript.text or "No transcript available"
TranscriptOrDefault(text) == IF text = << >> THEN NoTranscript ELSE text

\* a transcribe_audio that passes the provider's summary on as it is
SummaryAsGiven(ai_summary, text) == ai_summary
\* ai_summary = getattr(transcript, 'summary', None);
\* if not ai_summary: ai_summary = self.create_simple_summary(transcript_text)
SummaryOrSimple(ai_summary, text) ==
    IF ai_summary = << >> THEN create_simple_summary(text) ELSE ai_summary

NoResult == [transcript |-> << >>, summary |-> << >>]

----------------------------------------------------------------------------
(* The inputs: texts put together from a few pieces.                       *)

MaxPieces == 3

TranscriptPieces == <<
    <<"I"," ","n","e","e","d"," ","t","o"," ","c","a","l","l"," ","J","o","h","n"," ","t","o","m","o","r","r","o","w","."," ">>,
    <<"T","h","e"," ","w","e","a","t","h","e","r"," ","i","s"," ","n","i","c","e",".">>,
    <<"S","e","n","d"," ","i","t","?"," ","W","e"," ","m","u","s","t"," ","g","o","."," ","i"," ","N","E","E","D"," ","t","o"," ","c","a","l","l"," ","j","o","h","n"," ","T","O","M","O","R","R","O","W","!">>,
    <<"2"," ","c","a","l","l","s",","," ","'","m","u","s","t","'"," ","g","o",";"," ","t","h","e","n"," ","l","u","n","c","h"," ","a","t"," ","n","o","o","n",","," ">>,
    <<"c","a","l","l","."," ">>,
    <<"o","k",".">>,
    <<" ","\t","\n"," "," "," ">>,
    <<"?","!">>,
    <<"T","e","a","m"," ","m","e","e","t","i","n","g">> >>

SummaryPieces == <<
    <<"T","o","p","i","c"," ","o","n","e"," ","w","a","s"," ","r","e","v","i","e","w","e","d",";"," ","t","o","p","i","c"," ","t","w","o"," ","i","s"," ","s","t","i","l","l"," ","o","p","e","n","."," ">>,
    <<"T","O","P","I","C"," ","O","N","E"," ","W","A","S"," ","R","E","V","I","E","W","E","D","!"," ","3"," ","r","i","s","k","s"," ","w","e","r","e"," ","i","d","e","n","t","i","f","i","e","d","?"," ">>,
    <<"t","h","e"," ","l","a","u","n","c","h"," ","d","a","t","e"," ","m","o","v","e","d",";"," ","b","u","d","g","e","t"," ","i","s"," ","a","p","p","r","o","v","e","d"," ","n","o","w",";"," ","h","i","r","i","n","g"," ","s","t","a","r","t","s"," ","i","n"," ","m","a","r","c","h",";"," ","v","e","n","d","o","r","s"," ","w","e","r","e"," ","s","h","o","r","t","l","i","s","t","e","d",";"," ","t","h","e"," ","p","i","l","o","t"," ","w","e","n","t"," ","w","e","l","l","?"," ","4"," ","a","u","d","i","t","s"," ","r","e","m","a","i","n"," ","o","p","e","n","."," ">>,
    <<"o","k",";"," ","I"," ","N","E","E","D"," ","T","O"," ","C","A","L","L"," ","J","O","H","N"," ","T","O","M","O","R","R","O","W",".">> >>

\* all the sequences of at most n indices into a vocabulary of k pieces
IndexSeqs(k, n) == UNION {[1..m -> 1..k] : m \in 0..n}

RECURSIVE Concat(_, _, _)
Concat(vocab, idx, i) ==
    IF i > Len(idx) THEN << >> ELSE vocab[idx[i]] \o Concat(vocab, idx, i + 1)

\* the (transcript, summary) pairs made of at most MaxPieces pieces together
Inputs ==
    UNION { { <<Concat(TranscriptPieces, t, 1), Concat(SummaryPieces, s, 1)>> :
                t \in [1..m -> 1..Len(TranscriptPieces)],
                s \in UNION {[1..k -> 1..Len(SummaryPieces)] : k \in 0..(MaxPieces - m)} } :
            m \in 0..MaxPieces }

----------------------------------------------------------------------------
(* One recording and the runs that process it (src/main.py).               *)

MaxTasks == 1          \* background tasks POST /process may schedule

Now == 0
Tasks == 1..MaxTasks
RunIds == {Now} \cup Tasks

NoStatus == "none"
NoSummaryRow == [present |-> FALSE, content |-> << >>, action_items |-> << >>,
                 key_points |-> << >>, status |-> NoStatus]

\* what the provider may answer with status "completed": a text or no text,
\* here without a summary of its own
ProviderAnswers == {[text |-> <<"I"," ","n","e","e","d"," ","t","o"," ","c","a","l","l"," ","J","o","h","n"," ","t","o","m","o","r","r","o","w","."," ","I","t"," ","w","e","n","t"," ","w","e","l","l",".">>, summary |-> << >>],
                    [text |-> << >>, summary |-> << >>]}

\* how a call of transcribe_audio may fail
UpstreamFailures == {"file_missing", "provider_error", "provider_raises"}

\* what transcribe_audio returns for a provider answer
transcribe_audio(answer) ==
    [transcript |-> TranscriptOrDefault(answer.text),
     summary |-> SummaryOrSimple(answer.summary, TranscriptOrDefault(answer.text))]

\* a run that has not started; "wrote" lists the statuses the run set and
\* committed, the flags say what else the run did
NoRun == [pc |-> "unused", outcome |-> "none", provider_text |-> << >>, result |-> NoResult,
          analyzed |-> FALSE, status_seen |-> NoStatus, summary_found |-> FALSE, wrote_transcript |-> FALSE,
          wrote_summary |-> FALSE, wrote |-> << >>]

\* the Summary both runs build from the result of transcribe_audio
NewSummary(r) ==
    [present |-> TRUE, content |-> r.summary,
     action_items |-> extract_action_items(r.transcript),
     key_points |-> extract_key_points(r.summary, r.transcript),
     status |-> "completed"]

\* the statuses POST /process answers "already ..." to
AlreadyStatuses == {"processing", "completed"}

\* a failure handler that leaves the status as it is during the run
FailureStatusLeft == "processing"
\* the status the failure handlers write
FailureStatus == "error"

\* a run is between its first commit and its end
Running(i) == runs[i].pc \notin {"unused", "scheduled", "done"}

\* async handlers run one at a time on the event loop and process-now never
\* awaits: no other handler starts while a process-now request is running
LoopFree == ~Running(Now)

----------------------------------------------------------------------------
(* The calls.                                                              *)

Init ==
    /\ \E input \in Inputs :
        /\ transcript_text = input[1]
        /\ summary = input[2]
    /\ pc = "ready"
    /\ simple_summary = << >>
    /\ action_items = << >>
    /\ key_points = << >>
    /\ result = NoResult
    /\ rec_state = "absent"
    /\ rec_status = NoStatus
    /\ rec_transcript = << >>
    /\ summary_row = NoSummaryRow
    /\ runs = [i \in RunIds |-> NoRun]

CreateSimpleSummary ==
    /\ pc = "ready"
    /\ simple_summary' = create_simple_summary(transcript_text)
    /\ pc' = "summarized"
    /\ UNCHANGED <<transcript_text, summary, action_items, key_points, result>>
    /\ UNCHANGED pipelineVars

ExtractActionItems ==
    /\ pc = "summarized"
    /\ action_items' = extract_action_items(transcript_text)
    /\ pc' = "actions_extracted"
    /\ UNCHANGED <<transcript_text, summary, simple_summary, key_points, result>>
    /\ UNCHANGED pipelineVars

ExtractKeyPoints ==
    /\ pc = "actions_extracted"
    /\ key_points' = extract_key_points(summary, transcript_text)
    /\ pc' = "analyzed"
    /\ UNCHANGED <<transcript_text, summary, simple_summary, action_items, result>>
    /\ UNCHANGED pipelineVars

\* transcribe_audio when the file exists and the provider answers "completed"
TranscribeAudio ==
    /\ pc = "ready"
    /\ result' = [transcript |-> TranscriptOrDefault(transcript_text),
                  summary |-> SummaryOrSimple(summary, TranscriptOrDefault(transcript_text))]
    /\ pc' = "transcribed"
    /\ UNCHANGED <<transcript_text, summary, simple_summary, action_items, key_points>>
    /\ UNCHANGED pipelineVars

\* transcribe_audio when the file is missing, the provider answers "error" or
\* the provider call raises: every exception leaves as a RuntimeError
TranscribeAudioFails ==
    /\ pc = "ready"
    /\ pc' = "failed"
    /\ UNCHANGED <<transcript_text, summary, simple_summary, action_items, key_points, result>>
    /\ UNCHANGED pipelineVars

Next ==
    \/ CreateSimpleSummary
    \/ ExtractActionItems
    \/ ExtractKeyPoints
    \/ TranscribeAudio
    \/ TranscribeAudioFails

Spec == Init /\ [][Next]_vars

----------------------------------------------------------------------------
(* The handlers of src/main.py on one recording.  The async handlers       *)
(* (upload, delete, POST /process, POST /process-now) run on the event     *)
(* loop, one at a time; a background task runs in a worker thread, and its *)
(* steps, cut at its commits, interleave with everything else.             *)

\* the initial state of the recording: nothing uploaded, no run
PipelineInit ==
    /\ transcript_text = << >>
    /\ summary = << >>
    /\ pc = "pipeline"
    /\ simple_summary = << >>
    /\ action_items = << >>
    /\ key_points = << >>
    /\ result = NoResult
    /\ rec_state = "absent"
    /\ rec_status = NoStatus
    /\ rec_transcript = << >>
    /\ summary_row = NoSummaryRow
    /\ runs = [i \in RunIds |-> NoRun]

\* POST /recordings/upload
UploadRecording ==
    /\ LoopFree
    /\ rec_state = "absent"
    /\ rec_state' = "present"
    /\ rec_status' = "uploaded"
    /\ UNCHANGED <<rec_transcript, summary_row, runs>>
    /\ UNCHANGED analyzerVars

\* DELETE /recordings/{id}: the row goes, and its Summary with it (cascade)
DeleteRecording ==
    /\ LoopFree
    /\ rec_state = "present"
    /\ rec_state' = "deleted"
    /\ rec_status' = NoStatus
    /\ rec_transcript' = << >>
    /\ summary_row' = NoSummaryRow
    /\ UNCHANGED runs
    /\ UNCHANGED analyzerVars

\* POST /recordings/{id}/process: schedules a background task unless the
\* status is "processing" or "completed"
ProcessRecordingManually ==
    /\ LoopFree
    /\ rec_state = "present"
    /\ rec_status \notin AlreadyStatuses
    /\ \E i \in Tasks :
        /\ runs[i].pc = "unused"
        /\ \A j \in Tasks : j < i => runs[j].pc # "unused"
        /\ runs' = [runs EXCEPT ![i].pc = "scheduled"]
    /\ UNCHANGED <<rec_state, rec_status, rec_transcript, summary_row>>
    /\ UNCHANGED analyzerVars

\* process_transcription, up to its first commit: returns if the recording
\* is gone, else writes "processing"
TaskBegin(i) ==
    /\ runs[i].pc = "scheduled"
    /\ IF rec_state = "present"
       THEN /\ rec_status' = "processing"
            /\ runs' = [runs EXCEPT ![i].pc = "transcribing",
                                    ![i].wrote = Append(@, "processing")]
       ELSE /\ runs' = [runs EXCEPT ![i].pc = "done"]
            /\ UNCHANGED rec_status
    /\ UNCHANGED <<rec_state, rec_transcript, summary_row>>
    /\ UNCHANGED analyzerVars

\* the call of transcribe_audio, in either run: the provider answers or the
\* call fails (the file may go or the provider may fail at any time)
Transcribe(i) ==
    /\ runs[i].pc = "transcribing"
    /\ \/ \E answer \in ProviderAnswers :
            runs' = [runs EXCEPT ![i].pc = "got_result",
                                 ![i].outcome = "completed",
                                 ![i].provider_text = answer.text,
                                 ![i].result = transcribe_audio(answer)]
       \/ \E failure \in UpstreamFailures :
            runs' = [runs EXCEPT ![i].pc = "failed", ![i].outcome = failure]
    /\ UNCHANGED <<rec_state, rec_status, rec_transcript, summary_row>>
    /\ UNCHANGED analyzerVars

\* the second commit, in either run: the transcript and "transcribed".
\* When the row was deleted meanwhile the commit fails, and so does the
\* failure handler of the task, on a session that was not rolled back.
StoreTranscript(i) ==
    /\ runs[i].pc = "got_result"
    /\ IF rec_state = "present"
       THEN /\ rec_transcript' = runs[i].result.transcript
            /\ rec_status' = "transcribed"
            /\ runs' = [runs EXCEPT ![i].pc = "analyzing",
                                    ![i].wrote_transcript = TRUE,
                                    ![i].wrote = Append(@, "transcribed")]
       ELSE /\ runs' = [runs EXCEPT ![i].pc = "done"]
            /\ UNCHANGED <<rec_transcript, rec_status>>
    /\ UNCHANGED <<rec_state, summary_row>>
    /\ UNCHANGED analyzerVars

\* process_transcription from the extraction to its last commit: inserts the
\* Summary and writes "completed".  recording_id is unique in summaries: when
\* the recording has a Summary already the commit fails and nothing is
\* written, not by the failure handler either (session not rolled back).
TaskStoreSummary(i) ==
    /\ i \in Tasks
    /\ runs[i].pc = "analyzing"
    /\ IF rec_state = "present" /\ ~summary_row.present
       THEN /\ summary_row' = NewSummary(runs[i].result)
            /\ rec_status' = "completed"
            /\ runs' = [runs EXCEPT ![i].pc = "done",
                                    ![i].analyzed = TRUE,
                                    ![i].wrote_summary = TRUE,
                                    ![i].wrote = Append(@, "completed")]
       ELSE /\ runs' = [runs EXCEPT ![i].pc = "done", ![i].analyzed = TRUE]
            /\ UNCHANGED <<summary_row, rec_status>>
    /\ UNCHANGED <<rec_state, rec_transcript>>
    /\ UNCHANGED analyzerVars

\* the failure handler of process_transcription after transcribe_audio failed
TaskFailed(i) ==
    /\ i \in Tasks
    /\ runs[i].pc = "failed"
    /\ IF rec_state = "present"
       THEN /\ rec_status' = FailureStatus
            /\ runs' = [runs EXCEPT ![i].pc = "done",
                                    ![i].wrote = Append(@, FailureStatus)]
       ELSE /\ runs' = [runs EXCEPT ![i].pc = "done"]
            /\ UNCHANGED rec_status
    /\ UNCHANGED <<rec_state, rec_transcript, summary_row>>
    /\ UNCHANGED analyzerVars

\* POST /recordings/{id}/process-now, up to its first commit: answers at once
\* for a missing or a "completed" recording, else writes "processing"
NowBegin ==
    /\ LoopFree
    /\ rec_state = "present"
    /\ rec_status # "completed"
    /\ rec_status' = "processing"
    /\ runs' = [runs EXCEPT ![Now] = [NoRun EXCEPT !.pc = "transcribing",
                                                   !.wrote = <<"processing">>]]
    /\ UNCHANGED <<rec_state, rec_transcript, summary_row>>
    /\ UNCHANGED analyzerVars

\* process_recording_now: the extraction and the query for a Summary; the
\* query reloads the recording, so its status as committed is seen here
NowFindSummary ==
    /\ runs[Now].pc = "analyzing"
    /\ runs' = [runs EXCEPT ![Now].pc = "saving",
                            ![Now].analyzed = TRUE,
                            ![Now].summary_found = summary_row.present,
                            ![Now].status_seen = rec_status]
    /\ UNCHANGED <<rec_state, rec_status, rec_transcript, summary_row>>
    /\ UNCHANGED analyzerVars

\* process_recording_now, its last commit: updates the Summary it found or
\* inserts one, and writes "completed" (no UPDATE of a status it saw as
\* "completed" already).  When a Summary was inserted since the query the
\* commit fails and nothing is written, not by the failure handler either.
NowStoreSummary ==
    /\ runs[Now].pc = "saving"
    /\ IF runs[Now].summary_found \/ ~summary_row.present
       THEN /\ summary_row' = NewSummary(runs[Now].result)
            /\ rec_status' = IF runs[Now].status_seen = "completed"
                             THEN rec_status ELSE "completed"
            /\ runs' = [runs EXCEPT ![Now].pc = "done",
                                    ![Now].wrote_summary = TRUE,
                                    ![Now].wrote = Append(@, "completed")]
       ELSE /\ runs' = [runs EXCEPT ![Now].pc = "done"]
            /\ UNCHANGED <<summary_row, rec_status>>
    /\ UNCHANGED <<rec_state, rec_transcript>>
    /\ UNCHANGED analyzerVars

\* the failure handler of process_recording_now after transcribe_audio failed
NowFailed ==
    /\ runs[Now].pc = "failed"
    /\ rec_status' = FailureStatus
    /\ runs' = [runs EXCEPT ![Now].pc = "done",
                            ![Now].wrote = Append(@, FailureStatus)]
    /\ UNCHANGED <<rec_state, rec_transcript, summary_row>>
    /\ UNCHANGED analyzerVars

PipelineNext ==
    \/ UploadRecording
    \/ DeleteRecording
    \/ ProcessRecordingManually
    \/ \E i \in Tasks : TaskBegin(i)
    \/ \E i \in RunIds : Transcribe(i)
    \/ \E i \in RunIds : StoreTranscript(i)
    \/ \E i \in Tasks : TaskStoreSummary(i)
    \/ \E i \in Tasks : TaskFailed(i)
    \/ NowBegin
    \/ NowFindSummary
    \/ NowStoreSummary
    \/ NowFailed

SpecPipeline == PipelineInit /\ [][PipelineNext]_vars

----------------------------------------------------------------------------
(* What the properties below speak of.                                     *)

\* create_simple_summary has returned
Summarized == pc \in {"summarized", "actions_extracted", "analyzed"}
\* extract_action_items has returned
ActionsExtracted == pc \in {"actions_extracted", "analyzed"}
\* extract_key_points has returned
Analyzed == pc = "analyzed"

Digits == {"0", "1", "2", "3", "4", "5", "6", "7", "8", "9"}

\* prefix is how s starts
StartsWith(s, prefix) ==
    /\ Len(prefix) <= Len(s)
    /\ SubSeq(s, 1, Len(prefix)) = prefix

\* every string of the two output lists
OutputStrings ==
    {action_items[i] : i \in 1..Len(action_items)} \cup {key_points[i] : i \in 1..Len(key_points)}

\* the trimmed sentences of text that are at least 5 long and hold a keyword
MatchingSentences(text) ==
    LET pieces == Split(text, SentenceDelims)
        trimmed == [i \in 1..Len(pieces) |-> Strip(pieces[i])]
        Matches(f) == Len(f) >= 5 /\ HasActionKeyword(Lower(f))
    IN  SelectSeq(trimmed, Matches)

\* the entries of points that equal no earlier entry when case is ignored
FirstOccurrences(points) ==
    LET first == {i \in 1..Len(points) :
                    \A j \in 1..(i - 1) : Lower(points[j]) # Lower(points[i])}
        Nth(k) == CHOOSE i \in first : Cardinality({j \in first : j <= i}) = k
    IN  [k \in 1..Cardinality(first) |-> points[Nth(k)]]

\* no two entries of list are equal when case is ignored
NoRepeats(list) ==
    \A i, j \in 1..Len(list) : i < j => Lower(list[i]) # Lower(list[j])

Min(a, b) == IF a < b THEN a ELSE b

ExampleTranscript == <<"I"," ","n","e","e","d"," ","t","o"," ","c","a","l","l"," ","J","o","h","n"," ","t","o","m","o","r","r","o","w","."," ","T","h","e"," ","w","e","a","t","h","e","r"," ","i","s"," ","n","i","c","e",".">>
ExampleItem == <<"I"," ","n","e","e","d"," ","t","o"," ","c","a","l","l"," ","j","o","h","n"," ","t","o","m","o","r","r","o","w",".">>

----------------------------------------------------------------------------
(* The properties.                                                         *)

\* C1: for every transcript and every summary, the list of action items and
\* the list of key points each have at most 5 elements, however many
\* candidates matched.
C1_ListsCapped ==
    /\ Len(action_items) <= 5
    /\ Len(key_points) <= 5

\* C1, its case: more than 5 sentences matched and more than 5 distinct
\* points were gathered, and both lists came back with 5 entries.
C1_Witness ==
    /\ Analyzed
    /\ Len(MatchingSentences(transcript_text)) > 5
    /\ Len(FirstOccurrences(GatherPoints(summary, transcript_text))) > 5
    /\ Len(action_items) = 5
    /\ Len(key_points) = 5

\* C2 as stated: every string of the action items and of the key points
\* starts with an uppercase character and ends with a period, sentences
\* that begin with a digit or a quote included.
C2_UppercaseFirstAndPeriod ==
    \A item \in OutputStrings :
        /\ Len(item) > 0
        /\ item[1] \in UpperSet
        /\ EndsWith(item, Period)

\* C2 as amended: every string of the action items and of the key points
\* ends with a period and never starts with a lowercase letter; its first
\* character is uppercase exactly when the sentence starts with a letter (a
\* leading digit, quote or other non-letter is kept as it is).
C2_NoLowercaseFirstAndPeriod ==
    /\ \A item \in OutputStrings :
        /\ Len(item) > 1
        /\ item[1] \notin LowerSet
        /\ EndsWith(item, Period)
    /\ ActionsExtracted =>
        LET m == MatchingSentences(transcript_text)
        IN  \A k \in 1..Min(Len(m), Len(action_items)) :
                /\ m[k][1] \in LowerSet \cup UpperSet => action_items[k][1] \in UpperSet
                /\ m[k][1] \notin LowerSet \cup UpperSet => action_items[k][1] = m[k][1]

\* C2, its case: an action item and a key point that start with a digit next
\* to an action item whose sentence started with a lowercase letter.
C2_Witness ==
    /\ Analyzed
    /\ \E i \in 1..Len(action_items) : action_items[i][1] \in Digits
    /\ \E i \in 1..Len(key_points) : key_points[i][1] \in Digits
    /\ LET m == MatchingSentences(transcript_text)
       IN  \E k \in 1..Min(Len(m), Len(action_items)) :
               m[k][1] \in LowerSet /\ action_items[k][1] \in UpperSet

\* C3: every string of the action items and of the key points ends with a
\* single period: none ends with "..", "!." or "?.", also when the sentences
\* of the input are terminated by "!" or "?".
C3_SinglePeriod ==
    \A item \in OutputStrings :
        /\ Len(item) > 1
        /\ item[Len(item)] = "."
        /\ item[Len(item) - 1] \notin {".", "!", "?"}

\* C3, its case: a transcript that ends in a matching sentence terminated by
\* "!", a summary with a point terminated by "!", both in the output.
C3_Witness ==
    /\ Analyzed
    /\ EndsWith(transcript_text, <<"T","O","M","O","R","R","O","W","!">>)
    /\ action_items[Len(action_items)] = ExampleItem
    /\ StartsWith(summary, <<"T","O","P","I","C"," ","O","N","E"," ","W","A","S"," ","R","E","V","I","E","W","E","D","!"," ">>)
    /\ key_points[1] = <<"T","o","p","i","c"," ","o","n","e"," ","w","a","s"," ","r","e","v","i","e","w","e","d",".">>

\* C4: for every transcript whose trimmed length is less than 10, the empty
\* and the whitespace-only one included, create_simple_summary returns
\* exactly "Short audio clip with minimal content.".
C4_ShortTranscript ==
    (Summarized /\ Len(Strip(transcript_text)) < 10)
        => simple_summary = <<"S","h","o","r","t"," ","a","u","d","i","o"," ","c","l","i","p"," ","w","i","t","h"," ","m","i","n","i","m","a","l"," ","c","o","n","t","e","n","t",".">>

\* C4, its case: a transcript of 10 or more characters of which fewer than
\* 10, but some, are left after trimming.
C4_Witness ==
    /\ Summarized
    /\ Len(transcript_text) >= 10
    /\ Len(Strip(transcript_text)) \in 1..9
    /\ simple_summary = ShortClipSummary

\* C5 as stated: for every transcript of 3 or more sentences,
\* create_simple_summary starts with "The audio discusses " and ends with ".".
C5_ThreeSentences ==
    (Summarized /\ Len(Sentences(transcript_text)) >= 3)
        => /\ StartsWith(simple_summary, <<"T","h","e"," ","a","u","d","i","o"," ","d","i","s","c","u","s","s","e","s"," ">>)
           /\ EndsWith(simple_summary, Period)

\* C5 as amended: for every transcript of 3 or more sentences whose trimmed
\* length is at least 10, create_simple_summary starts with
\* "The audio discusses " and ends with "."; a shorter one gets the
\* short-clip summary however many sentences it has.
C5_ThreeSentencesLongEnough ==
    /\ (Summarized /\ Len(Sentences(transcript_text)) >= 3
                   /\ Len(Strip(transcript_text)) >= 10)
        => /\ StartsWith(simple_summary, <<"T","h","e"," ","a","u","d","i","o"," ","d","i","s","c","u","s","s","e","s"," ">>)
           /\ EndsWith(simple_summary, Period)
    /\ (Summarized /\ Len(Sentences(transcript_text)) >= 3
                   /\ Len(Strip(transcript_text)) < 10)
        => simple_summary = ShortClipSummary

\* C5, its case: exactly 3 sentences in 10 or more characters, summarized.
C5_Witness ==
    /\ Summarized
    /\ Len(Sentences(transcript_text)) = 3
    /\ Len(Strip(transcript_text)) >= 10
    /\ StartsWith(simple_summary, DiscussesPrefix)

\* C6: create_simple_summary never returns the empty string, and so the
\* summary in the result of a successful transcribe_audio is never empty.
C6_SummaryNeverEmpty ==
    /\ Summarized => Len(simple_summary) > 0
    /\ pc = "transcribed" => Len(result.summary) > 0

\* C6, its case: the provider gave no summary and a transcript without a
\* single sentence (delimiters and blanks only), and transcribe_audio returned.
C6_Witness ==
    /\ pc = "transcribed"
    /\ summary = << >>
    /\ transcript_text # << >>
    /\ Sentences(transcript_text) = << >>
    /\ result.summary = create_simple_summary(result.transcript)

\* C7: the key points hold no two entries equal when case is ignored; of
\* several such candidates the first is kept, the kept ones stand in the
\* order of their first occurrence, the summary's before the transcript's,
\* and the cap of 5 is applied after the duplicates are removed.
C7_KeyPointsDeduplicated ==
    Analyzed =>
        LET from_summary == SummaryPoints(summary)
            from_transcript ==
                IF Len(from_summary) < 3 /\ transcript_text # << >>
                THEN TranscriptPoints(transcript_text) ELSE << >>
            kept == FirstOccurrences(from_summary \o from_transcript)
        IN  /\ NoRepeats(key_points)
            /\ Len(key_points) = Min(5, Len(kept))
            /\ \A k \in 1..Len(key_points) : key_points[k] = kept[k]

\* C7, its case: a candidate was dropped as a duplicate and more than 5
\* distinct candidates were left for the cap.
C7_Witness ==
    /\ Analyzed
    /\ LET points == GatherPoints(summary, transcript_text)
       IN  /\ Len(FirstOccurrences(points)) < Len(points)
           /\ Len(FirstOccurrences(points)) > 5
           /\ ~NoRepeats(Take(points, 5))
    /\ Len(key_points) = 5

\* C8 as stated: the action items never hold two entries equal when case is
\* ignored; of matching sentences that differ only in case only the first
\* is in the result.
C8_ActionItemsDeduplicated == NoRepeats(action_items)

\* C8 as amended: the action items keep transcript order and keep
\* duplicates: for every k up to min(5, number of matching sentences) the
\* k-th entry is the k-th matching sentence (up to case, with its period),
\* so matching sentences that are identical or differ only in case each
\* appear.
C8_ActionItemsInOrderWithRepeats ==
    ActionsExtracted =>
        LET m == MatchingSentences(transcript_text)
        IN  m # << >> =>
                /\ Len(action_items) = Min(5, Len(m))
                /\ \A k \in 1..Len(action_items) :
                        Lower(action_items[k]) = Lower(m[k]) \o Period

\* C8, its case: two matching sentences that differ only in case, both in
\* the result.
C8_Witness ==
    /\ ActionsExtracted
    /\ LET m == MatchingSentences(transcript_text)
       IN  \E i, j \in 1..Len(action_items) :
               /\ i < j
               /\ m[i] # m[j]
               /\ action_items[i] = action_items[j]

\* Used for C9: a transcript whose lowercased text contains "meeting" always
\* has a matching sentence ("meeting" is itself a keyword), so the case C9
\* speaks of, "meeting" in the transcript and no sentence matched, is in no
\* reachable state.
MeetingAlwaysMatches ==
    Contains(Lower(transcript_text), MeetingWord)
        => MatchingSentences(transcript_text) # << >>

\* C10: when at least one sentence matches, extract_action_items returns
\* exactly the first five, in transcript order, of the trimmed sentences of
\* length >= 5 whose lowercased form contains one of the 22 keywords, each
\* capitalized and given a period; a sentence without a keyword is never in
\* the result ("I need to call John tomorrow. The weather is nice." yields
\* exactly ["I need to call john tomorrow."]).
C10_MatchingSentencesReturned ==
    /\ Len(action_keywords) = 22
    /\ ActionsExtracted =>
        LET m == MatchingSentences(transcript_text)
            normalized == [k \in 1..Len(m) |-> Capitalize(m[k]) \o Period]
        IN  /\ m # << >> => action_items = Take(normalized, 5)
            /\ transcript_text = ExampleTranscript => action_items = <<ExampleItem>>

\* C10, its case: the transcript of the example, with its one item returned.
C10_Witness ==
    /\ ActionsExtracted
    /\ transcript_text = ExampleTranscript
    /\ Len(Sentences(transcript_text)) = 2
    /\ action_items = <<ExampleItem>>

\* C14 as stated: for a transcript of 3 or more sentences create_simple_summary
\* returns "The audio discusses " + the lowercased first sentence, then
\* " and concludes with " + the lowercased last sentence exactly when the
\* text of the last sentence differs from that of the first, then one period
\* (checked on the transcripts of trimmed length 10 or more, which reach the
\* branch for 3 or more sentences).
C14_ConcludesOnlyWhenDistinct ==
    (Summarized /\ Len(Sentences(transcript_text)) >= 3
                /\ Len(Strip(transcript_text)) >= 10) =>
        LET sentences == Sentences(transcript_text)
            first == sentences[1]
            last == sentences[Len(sentences)]
            clause == IF last # first THEN ConcludesInfix \o Lower(last) ELSE << >>
        IN  simple_summary = DiscussesPrefix \o Lower(first) \o clause \o Period

\* C14: for a transcript of trimmed length 10 or more with 3 or more
\* sentences create_simple_summary returns "The audio discusses " + the
\* lowercased first sentence + " and concludes with " + the lowercased last
\* sentence + one period, also when the last sentence has the text of the
\* first; a transcript of 3 or more sentences of trimmed length below 10 gets
\* the short-clip summary.
C14_AlwaysConcludes ==
    (Summarized /\ Len(Sentences(transcript_text)) >= 3) =>
        LET sentences == Sentences(transcript_text)
            first == sentences[1]
            last == sentences[Len(sentences)]
        IN  IF Len(Strip(transcript_text)) >= 10
            THEN /\ simple_summary = DiscussesPrefix \o Lower(first)
                                       \o ConcludesInfix \o Lower(last) \o Period
                 /\ ~EndsWith(simple_summary, Period \o Period)
            ELSE simple_summary = ShortClipSummary

\* C14, its case: three sentences, the last with the text of the first, and
\* the summary concludes with it all the same.
C14_Witness ==
    /\ Summarized
    /\ transcript_text = <<"c","a","l","l","."," ","c","a","l","l","."," ","c","a","l","l","."," ">>
    /\ Sentences(transcript_text) = <<<<"c","a","l","l">>, <<"c","a","l","l">>, <<"c","a","l","l">>>>
    /\ simple_summary = <<"T","h","e"," ","a","u","d","i","o"," ","d","i","s","c","u","s","s","e","s"," ","c","a","l","l"," ","a","n","d"," ","c","o","n","c","l","u","d","e","s"," ","w","i","t","h"," ","c","a","l","l",".">>

\* the points C15 expects of the transcript: those of the first 3 sentences
\* of the segmenter (trimmed, empty fragments discarded) longer than 20
SegmentedTranscriptPoints(transcript) ==
    PointLoop(Take(Sentences(transcript), 3), 20, 1)

\* C15: extract_key_points consults the transcript only when the summary gave
\* fewer than 3 points and the transcript is non-empty, and then appends
\* exactly the candidates of the first 3 sentences of the transcript, as the
\* segmenter produces them (trimmed, empty fragments discarded), whose
\* trimmed length exceeds 20, in order; this also for a transcript that
\* begins with a delimiter or has blank fragments between delimiters.
C15_FirstThreeSentences ==
    Analyzed =>
        LET points == SummaryPoints(summary)
            gathered == IF Len(points) < 3 /\ transcript_text # << >>
                        THEN points \o SegmentedTranscriptPoints(transcript_text)
                        ELSE points
        IN  key_points = Take(UniquePoints(gathered), 5)

\* C16: for a non-empty transcript without a keyword-matched sentence
\* extract_action_items returns exactly one synthesized item, chosen in the
\* order meeting item, call item, generic item; so a non-empty transcript
\* (also one of whitespace or delimiters only) yields between 1 and 5 items
\* and only the empty transcript yields the empty list.
C16_OneSynthesizedItem ==
    ActionsExtracted =>
        LET lowered == Lower(transcript_text)
            expected == IF Contains(lowered, MeetingWord) THEN MeetingItem
                        ELSE IF Contains(lowered, CallWord) THEN CallItem
                        ELSE GenericItem
        IN  /\ (transcript_text # << >> /\ MatchingSentences(transcript_text) = << >>)
                   => action_items = <<expected>>
            /\ transcript_text # << >> => Len(action_items) \in 1..5
            /\ action_items = << >> <=> transcript_text = << >>

\* C16, its case: a transcript whose one sentence, "call", is too short to
\* match, answered with the call item alone.
C16_Witness ==
    /\ ActionsExtracted
    /\ transcript_text = <<"c","a","l","l","."," ">>
    /\ MatchingSentences(transcript_text) = << >>
    /\ action_items = <<CallItem>>

\* C18: a transcript whose lowercased text contains "meeting" always has a
\* keyword-matched sentence, so extract_action_items never synthesizes
\* "Follow up on meeting discussion.": without a matched sentence the result
\* is the call item or the generic item, and the meeting item's text is in a
\* result only as a matched sentence of the transcript.
C18_MeetingItemNeverSynthesized ==
    ActionsExtracted =>
        LET matched == MatchingSentences(transcript_text)
        IN  /\ Contains(Lower(transcript_text), MeetingWord) => matched # << >>
            /\ (transcript_text # << >> /\ matched = << >>)
                   => action_items \in {<<CallItem>>, <<GenericItem>>}
            /\ (\E k \in 1..Len(action_items) : action_items[k] = MeetingItem)
                   => matched # << >>

\* C18, its case: a transcript with "meeting" in it, answered with its own
\* sentence and not with the meeting item.
C18_Witness ==
    /\ ActionsExtracted
    /\ transcript_text = <<"T","e","a","m"," ","m","e","e","t","i","n","g">>
    /\ Contains(Lower(transcript_text), MeetingWord)
    /\ action_items = <<<<"T","e","a","m"," ","m","e","e","t","i","n","g",".">>>>

\* the run has ended
Done(i) == runs[i].pc = "done"
\* the last status the run committed, if any
LastWrote(i) == IF runs[i].wrote = << >> THEN NoStatus
                ELSE runs[i].wrote[Len(runs[i].wrote)]
\* the recording is still there (once deleted it stays deleted)
RecordingPresent == rec_state = "present"

\* C11: when transcribe_audio fails (file missing, provider status "error",
\* provider call raising), a background task as well as a process-now request
\* ends by writing the status "error" (of a recording that still exists: one
\* deleted meanwhile has no status left), without having called the
\* extraction, without having created or changed a Summary and without
\* having written the transcript.
C11_UpstreamFailureEndsInError ==
    \A i \in RunIds :
        (Done(i) /\ runs[i].outcome \in UpstreamFailures) =>
            /\ RecordingPresent => LastWrote(i) = "error"
            /\ ~runs[i].analyzed
            /\ ~runs[i].wrote_summary
            /\ ~runs[i].wrote_transcript

\* C11, its case: a background task and the process-now request have both
\* ended after a failure of transcribe_audio and the recording is in "error".
C11_Witness ==
    /\ RecordingPresent
    /\ Done(Now) /\ runs[Now].outcome \in UpstreamFailures
    /\ \E i \in Tasks : Done(i) /\ runs[i].outcome = "file_missing"
    /\ rec_status = "error"
    /\ rec_transcript = << >>
    /\ ~summary_row.present

\* C12: when the provider answers with an empty text, the run ends with the
\* recording in "error", the extraction is not called and no Summary is
\* stored by the run.
C12_EmptyTranscriptIsAnError ==
    \A i \in RunIds :
        (Done(i) /\ runs[i].outcome = "completed" /\ runs[i].provider_text = << >>) =>
            /\ RecordingPresent => LastWrote(i) = "error"
            /\ ~runs[i].analyzed
            /\ ~runs[i].wrote_summary

\* C13: at most one run on the recording is between the start of its
\* transcription and its end, whatever the interleaving of POST /process
\* requests, their background tasks and POST /process-now requests.
C13_AtMostOneRun ==
    Cardinality({i \in RunIds : Running(i)}) <= 1

\* C17: the status of the recording is always one of "uploaded",
\* "processing", "completed", "error".
C17_DocumentedStatuses ==
    RecordingPresent => rec_status \in {"uploaded", "processing", "completed", "error"}

\* C19: the recording has a Summary (with status "completed") if and only if
\* its own status is "completed" with a transcript stored, whatever the
\* interleaving of background tasks and process-now requests; in particular
\* it is never in "error" while a completed Summary exists.  (That there is
\* at most one Summary row is what the unique recording_id gives.)
C19_SummaryIffCompleted ==
    RecordingPresent =>
        /\ summary_row.present <=> (rec_status = "completed" /\ rec_transcript # << >>)
        /\ summary_row.present => summary_row.status = "completed"
        /\ ~(rec_status = "error" /\ summary_row.present)

\* C20: a run that has written "processing" writes "completed" or "error"
\* before it ends, so that the recording (while it exists) is not left in
\* "processing" or "transcribed" once no run is under way; and a run writes
\* "transcribed" second, after "processing" and with the transcript, and
\* "completed" third, after "transcribed".
C20_RunsEndCompletedOrError ==
    /\ \A i \in RunIds :
        /\ (Done(i) /\ runs[i].wrote # << >> /\ RecordingPresent)
               => LastWrote(i) \in {"completed", "error"}
        /\ \A k \in 1..Len(runs[i].wrote) :
            /\ k = 1 <=> runs[i].wrote[k] = "processing"
            /\ runs[i].wrote[k] = "transcribed" => (k = 2 /\ runs[i].wrote_transcript)
            /\ runs[i].wrote[k] = "completed" => (k = 3 /\ runs[i].wrote[2] = "transcribed")
    /\ (RecordingPresent /\ \A i \in RunIds : runs[i].pc \in {"unused", "done"})
           => rec_status \notin {"processing", "transcribed"}

=============================================================================
